---- MODULE Spec2Model ----
(***************************************************************************)
(* A model of addon/mixins/validator.js: the validator mixin of            *)
(* ember-cli-data-validation.  One record (a DS.Model with the mixin) is   *)
(* modelled together with the registry (owner/container) it looks its      *)
(* validators and its message resolver up in.  validate() and save() are   *)
(* synchronous, so each is one action; what happens inside a call (signals *)
(* sent, validators created and invoked, errors added, the commit) is kept *)
(* in order in the variable trace.                                         *)
(***************************************************************************)
EXTENDS Integers, Sequences, FiniteSets, TLC

\* The number of commits (this._super() calls) a behaviour is followed for.
MaxCommits == 2

\* The calls of validate() and save() are followed while the Error
\* Collection holds at most this many messages when the call starts.
MaxErrors == 3

(***************************************************************************)
(* JavaScript values.                                                      *)
(***************************************************************************)
Undefined == [t |-> "undefined"]
Null == [t |-> "null"]
Str(s) == [t |-> "string", s |-> s]
Num(n) == [t |-> "number", n |-> n]
Bool(b) == [t |-> "boolean", b |-> b]
Arr(items) == [t |-> "array", items |-> items]
\* An object: its own enumerable keys in enumeration order, and their values.
Obj(keys, props) == [t |-> "object", keys |-> keys, props |-> props]
\* A reference to the attribute (or relationship) descriptor of a field.
AttrRef(f) == [t |-> "attribute", name |-> f]
\* A reference to a provider the registry resolved.
ProviderRef(fullName) == [t |-> "provider", fullName |-> fullName]

\* The JavaScript typeof operator.
TypeOf(v) ==
  CASE v.t = "undefined" -> "undefined"
    [] v.t = "string" -> "string"
    [] v.t = "number" -> "number"
    [] v.t = "boolean" -> "boolean"
    [] OTHER -> "object"

\* Ember.isEmpty: null, undefined, the empty string and the empty array.
IsEmpty(v) ==
  \/ v.t \in {"undefined", "null"}
  \/ v.t = "string" /\ v.s = ""
  \/ v.t = "array" /\ v.items = <<>>

\* Ember.isArray.
IsArray(v) == v.t = "array"

\* Object.keys.
ObjectKeys(o) == o.keys

\* Ember.merge(original, updates): copies the updates onto the original,
\* which is changed in place; the result is the original as it then is.
Merge(original, updates) ==
  LET new == SelectSeq(updates.keys,
                       LAMBDA k : \A i \in 1..Len(original.keys) : original.keys[i] # k)
  IN  Obj(original.keys \o new, updates.props @@ original.props)

\* Ember.String.camelize, on the rule type keys of the model.
Camelize(key) ==
  CASE key = "max-length" -> "maxLength"
    [] OTHER -> key

(***************************************************************************)
(* The registry (owner/container).  The validator factories are fixed:     *)
(* "required" is registered under both names, "echo" under the primary     *)
(* name only, "range" and "max-length" under the vendored name only, and   *)
(* "bogus" under neither.                                                  *)
(***************************************************************************)
RegisteredFactories ==
  { "validator:required", "validator:echo",
    "ember-cli-data-validation@validator:required",
    "ember-cli-data-validation@validator:range",
    "ember-cli-data-validation@validator:max-length" }

\* container.lookupFactory(fullName) (or _lookupFactory): the factory, which
\* is a function (a class), or undefined.
LookupFactory(fullName) ==
  IF fullName \in RegisteredFactories THEN ProviderRef(fullName) ELSE Undefined

\* The full name `validator:${key}`.
ValidatorName(key) ==
  CASE key = "required" -> "validator:required"
    [] key = "echo" -> "validator:echo"
    [] key = "range" -> "validator:range"
    [] key = "max-length" -> "validator:max-length"
    [] OTHER -> "validator:bogus"

\* The full name `ember-cli-data-validation@validator:${key}`.
VendoredValidatorName(key) ==
  CASE key = "required" -> "ember-cli-data-validation@validator:required"
    [] key = "echo" -> "ember-cli-data-validation@validator:echo"
    [] key = "range" -> "ember-cli-data-validation@validator:range"
    [] key = "max-length" -> "ember-cli-data-validation@validator:max-length"
    [] OTHER -> "ember-cli-data-validation@validator:bogus"

\* a || b of JavaScript, for the values a lookup returns.
OrElse(a, b) == IF a.t \in {"undefined", "null"} THEN b ELSE a

\* A faulty variant of lookupValidtorFactory: the vendored name is tried
\* first.
lookupValidtorFactoryVendoredFirst(key) ==
  OrElse(LookupFactory(VendoredValidatorName(key)), LookupFactory(ValidatorName(key)))

\* lookupValidtorFactory, lines 31-42.
lookupValidtorFactory(key) ==
  OrElse(LookupFactory(ValidatorName(key)), LookupFactory(VendoredValidatorName(key)))

\* What a registry holds under a message resolver name: nothing ("none"), a
\* resolver with no message for the key 'error' ("empty"), or a resolver
\* with one ("text").  These are the registries modelled.
Registries ==
  { [primary |-> "none", vendored |-> "none"],
    [primary |-> "none", vendored |-> "text"],
    [primary |-> "none", vendored |-> "empty"],
    [primary |-> "text", vendored |-> "none"],
    [primary |-> "text", vendored |-> "text"],
    [primary |-> "empty", vendored |-> "text"] }

\* container.lookup(fullName) for the two message resolver names, in a
\* registry reg = [primary |-> kind, vendored |-> kind].
Lookup(reg, fullName) ==
  LET kind == IF fullName = "resolver:validation-message" THEN reg.primary ELSE reg.vendored
  IN  IF kind = "none" THEN Undefined ELSE ProviderRef(fullName)

lookupMessageResolver(reg) ==
  OrElse(Lookup(reg, "resolver:validation-message"),
         Lookup(reg, "ember-cli-data-validation@resolver:validation-message"))

\* messageResolver.resolveMessage('error') of a resolved resolver.
ResolveErrorMessage(reg, resolver) ==
  LET kind == IF resolver.fullName = "resolver:validation-message"
              THEN reg.primary ELSE reg.vendored
  IN  IF kind = "text"
      THEN (IF resolver.fullName = "resolver:validation-message"
            THEN Str("error message of the application")
            ELSE Str("error message of the addon"))
      ELSE Str("")

\* defaultMessages.error, the built-in message.
DefaultErrorMessage == Str("default error message")

\* new ValidationError(message, errors).
ValidationError(message, errors) ==
  [t |-> "ValidationError", message |-> message, errors |-> errors]

(***************************************************************************)
(* The record's class: its attributes and relationships, in the order      *)
(* eachAttribute and eachRelationship enumerate them.                      *)
(***************************************************************************)
Attributes == <<"name", "note">>
Relationships == <<"owner">>
Fields == {"name", "note", "owner"}

\* this.constructor.modelName
ModelName == "person"

\* attrName(attribute): the name of the field.
attrName(attribute) == attribute.name

\* The values a field setter may give each field.
NameValues == {Str(""), Str("abc")}
NoteValues ==
  { Undefined, Null, Num(0), Bool(FALSE), Obj(<<>>, <<>>), Arr(<<>>) }
OwnerValues == {Null, Obj(<<"id">>, "id" :> Num(1))}

ValuesOf(f) ==
  CASE f = "name" -> NameValues
    [] f = "note" -> NoteValues
    [] OTHER -> OwnerValues

\* Rule objects of the declarations below.
Required == Obj(<<"required">>, "required" :> Bool(TRUE))
Echo == Obj(<<"echo">>, "echo" :> Bool(TRUE))
Bogus == Obj(<<"bogus">>, "bogus" :> Bool(TRUE))
RangeMin1 == Obj(<<"range">>, "range" :> Obj(<<"min">>, "min" :> Num(1)))
MaxLength2AndEcho ==
  Obj(<<"max-length", "echo">>, ("max-length" :> Num(2)) @@ ("echo" :> Bool(TRUE)))
RequiredAndEcho ==
  Obj(<<"required", "echo">>, ("required" :> Bool(TRUE)) @@ ("echo" :> Bool(TRUE)))
\* One rule, a maximal length of 2, in shorthand syntax and in explicit
\* syntax, with the option under the name "max" and under the rule type.
MaxLength2 == Obj(<<"max-length">>, "max-length" :> Num(2))
MaxLengthMax2 == Obj(<<"max-length">>, "max-length" :> Obj(<<"max">>, "max" :> Num(2)))
MaxLengthKeyed2 ==
  Obj(<<"max-length">>, "max-length" :> Obj(<<"max-length">>, "max-length" :> Num(2)))

\* The `validation` option of each field, for the record classes modelled:
\* absent, an empty list, one rule object, a list of rule objects, a rule
\* object with several keys, and rule types nobody registered.
Declarations ==
  { [name |-> Required, note |-> Undefined, owner |-> Required],
    [name |-> Arr(<<Required, MaxLength2AndEcho>>),
     note |-> Arr(<<RangeMin1, Echo>>), owner |-> Undefined],
    [name |-> Arr(<<>>), note |-> RequiredAndEcho, owner |-> RangeMin1],
    [name |-> Required, note |-> Arr(<<RangeMin1, Bogus, Echo>>), owner |-> Required],
    [name |-> Arr(<<Bogus, Required>>), note |-> Echo, owner |-> Undefined],
    [name |-> Undefined, note |-> Echo, owner |-> Arr(<<Required, Bogus>>)],
    [name |-> Arr(<<MaxLength2, MaxLengthMax2, MaxLengthKeyed2>>),
     note |-> Undefined, owner |-> Undefined] }

(***************************************************************************)
(* The validators, which the addon and the application supply.  A          *)
(* validator instance is [type, factory, config]; its validate(name,       *)
(* value, attribute, record) is a function of its configuration and of     *)
(* the value.  "echo" stands for an application's own validator: its       *)
(* result is the value it is given, so that every shape of result occurs.  *)
(***************************************************************************)
\* The maximal length a "max-length" validator reads from its configuration:
\* the option under the rule type, or else the option "max"; without either
\* it has no limit.
MaxLengthOption(config) ==
  CASE "max-length" \in DOMAIN config.props -> config.props["max-length"]
    [] "max" \in DOMAIN config.props -> config.props["max"]
    [] OTHER -> Undefined

ValidatorResult(validator, val) ==
  CASE validator.type = "required" ->
         IF IsEmpty(val) THEN Str("required") ELSE Undefined
    [] validator.type = "range" ->
         IF val.t = "number" /\ val.n < validator.config.props["min"].n
         THEN Str("range") ELSE Undefined
    [] validator.type = "max-length" ->
         IF /\ val.t = "string"
            /\ MaxLengthOption(validator.config).t = "number"
            /\ Len(val.s) > MaxLengthOption(validator.config).n
         THEN Str("maxLength") ELSE Undefined
    [] OTHER -> val

(***************************************************************************)
(* The state of the program.                                               *)
(***************************************************************************)
VARIABLES
  value,      \* the record's field values
  meta,       \* each field's descriptor: [options, parentTypeKey]
  registry,   \* what the registry holds under the two message resolver names
  typeKeys,   \* the typeKey stamped on each validator factory
  errors,     \* the record's Error Collection: a sequence of [attribute, message]
  isValid,    \* the record's isValid flag
  isDeleted,  \* the record's isDeleted flag
  commits,    \* how many times the commit operation (this._super()) was invoked
  trace,      \* what the last call did, in order
  outcome     \* how the last call ended

vars == <<value, meta, registry, typeKeys, errors, isValid, isDeleted, commits, trace, outcome>>

\* No exception: the value of `threw` while a call runs normally.
NoError == <<>>

\* The error Ember.assert raises in lookupValidator.
AssertionError(typeKey) == <<"Error", "Could not find Validator", typeKey>>

\* The error of calling a method of undefined.
TypeErrorOfUndefined(method) == <<"TypeError", "undefined has no method", method>>

(***************************************************************************)
(* validatorsFor, lines 85-114.  A call works on the record st of what it  *)
(* may change: [errors, meta, typeKeys, isValid, trace, threw, validators].*)
(***************************************************************************)

\* Lines 99-109: one descriptor per key of each rule object, in order.  item
\* is the rule object's place in the list: descriptor.value is the very
\* object the declaration holds there.
RECURSIVE Descriptors(_, _, _)
Descriptors(validations, attribute, i) ==
  IF i > Len(validations) THEN <<>>
  ELSE LET validation == validations[i]
           keys == ObjectKeys(validation)
       IN  [k \in 1..Len(keys) |->
              [type |-> keys[k], value |-> validation.props[keys[k]],
               attribute |-> attribute, item |-> i]]
           \o Descriptors(validations, attribute, i + 1)

\* The declaration of field f with the rule value under `type` of its
\* item-th rule object replaced: what a change in place of that value does.
WithRuleValue(validations, item, type, v) ==
  IF IsArray(validations)
  THEN [validations EXCEPT !.items[item].props[type] = v]
  ELSE [validations EXCEPT !.props[type] = v]

\* A faulty variant of RuleValueAsObject: a value that is no object is put
\* under the camelized rule type.
RuleValueUnderCamelizedType(obj) ==
  IF TypeOf(obj.value) # "object"
  THEN Obj(<<Camelize(obj.type)>>, Camelize(obj.type) :> obj.value)
  ELSE obj.value

\* Lines 51-57: a rule value that is no object is put into a new object,
\* under the rule type; one that is an object is taken as it is.
RuleValueAsObject(obj) ==
  IF TypeOf(obj.value) # "object"
  THEN Obj(<<obj.type>>, obj.type :> obj.value)
  ELSE obj.value

\* A faulty variant of lookupValidator: a rule whose validator is not found
\* is skipped.
lookupValidatorSkipping(st, reg, obj) ==
  LET typeKey == obj.type
      validatorClass == lookupValidtorFactory(typeKey)
      messageResolver == lookupMessageResolver(reg)
      f == obj.attribute.name
      wrapped == TypeOf(obj.value) # "object"
      value0 == RuleValueAsObject(obj)
      value1 == Merge(value0,
                      Obj(<<"attribute", "messageResolver">>,
                          ("attribute" :> obj.attribute)
                            @@ ("messageResolver" :> messageResolver)))
  IN  IF validatorClass.t # "provider"
      THEN st
      ELSE [st EXCEPT
              !.meta[f].options.validation =
                 IF wrapped THEN @ ELSE WithRuleValue(@, obj.item, typeKey, value1),
              !.typeKeys[validatorClass.fullName] = Str(Camelize(typeKey)),
              !.trace = Append(@, <<"create", f, typeKey, value1, validatorClass.fullName>>),
              !.validators = Append(@, [type |-> typeKey,
                                        factory |-> validatorClass,
                                        config |-> value1])]

\* lookupValidator, lines 44-67.
lookupValidator(st, reg, obj) ==
  LET typeKey == obj.type
      validatorClass == lookupValidtorFactory(typeKey)
      messageResolver == lookupMessageResolver(reg)
      f == obj.attribute.name
      wrapped == TypeOf(obj.value) # "object"
      value0 == RuleValueAsObject(obj)
      value1 == Merge(value0,
                      Obj(<<"attribute", "messageResolver">>,
                          ("attribute" :> obj.attribute)
                            @@ ("messageResolver" :> messageResolver)))
  IN  IF validatorClass.t # "provider"
      THEN [st EXCEPT !.threw = AssertionError(typeKey)]
      ELSE [st EXCEPT
              !.meta[f].options.validation =
                 IF wrapped THEN @ ELSE WithRuleValue(@, obj.item, typeKey, value1),
              !.typeKeys[validatorClass.fullName] = Str(Camelize(typeKey)),
              !.trace = Append(@, <<"create", f, typeKey, value1, validatorClass.fullName>>),
              !.validators = Append(@, [type |-> typeKey,
                                        factory |-> validatorClass,
                                        config |-> value1])]

\* Lines 111-113: validators.map(lookupValidator), which an exception ends.
RECURSIVE MapLookupValidator(_, _, _, _)
MapLookupValidator(st, reg, descriptors, i) ==
  IF i > Len(descriptors) \/ st.threw # NoError THEN st
  ELSE MapLookupValidator(lookupValidator(st, reg, descriptors[i]), reg, descriptors, i + 1)

\* A faulty variant of validatorsFor: a declaration that is no list is not
\* wrapped into one (lines 93-95) and yields no validator.
validatorsForListsOnly(st, reg, attribute) ==
  LET validations == st.meta[attribute.name].options.validation
      st0 == [st EXCEPT !.validators = <<>>]
  IN  IF IsEmpty(validations) \/ ~IsArray(validations) THEN st0
      ELSE MapLookupValidator(st0, reg, Descriptors(validations.items, attribute, 1), 1)

validatorsFor(st, reg, attribute) ==
  LET validations == st.meta[attribute.name].options.validation
      st0 == [st EXCEPT !.validators = <<>>]
  IN  IF IsEmpty(validations) THEN st0
      ELSE LET list == IF ~IsArray(validations) THEN <<validations>> ELSE validations.items
           IN  MapLookupValidator(st0, reg, Descriptors(list, attribute, 1), 1)

(***************************************************************************)
(* _validateAttribute and _addError, lines 129-153.                        *)
(***************************************************************************)

\* Lines 143-153: errors._add(name, result) (errors.add where there is no
\* _add) appends the message under the name.
_addError(st, name, result) ==
  IF TypeOf(result) = "string"
  THEN [st EXCEPT !.errors = Append(@, [attribute |-> name, message |-> result.s]),
                  !.trace = Append(@, <<"add", name, result.s>>)]
  ELSE st

\* A faulty variant of lines 137-140: the loop ends at the first failure.
RECURSIVE ForEachValidatorUntilFailure(_, _, _, _, _)
ForEachValidatorUntilFailure(st, validators, name, val, i) ==
  IF i > Len(validators) THEN st
  ELSE LET result == ValidatorResult(validators[i], val)
           called == [st EXCEPT !.trace =
                        Append(@, <<"validate", name, validators[i].type, result>>)]
       IN  IF TypeOf(result) = "string" THEN _addError(called, name, result)
           ELSE ForEachValidatorUntilFailure(called, validators, name, val, i + 1)

\* Lines 137-140: validators.forEach.
RECURSIVE ForEachValidator(_, _, _, _, _)
ForEachValidator(st, validators, name, val, i) ==
  IF i > Len(validators) THEN st
  ELSE LET result == ValidatorResult(validators[i], val)
           called == [st EXCEPT !.trace =
                        Append(@, <<"validate", name, validators[i].type, result>>)]
       IN  ForEachValidator(_addError(called, name, result), validators, name, val, i + 1)

\* A faulty variant of _validateAttribute: each validator is invoked as soon
\* as it is built.
RECURSIVE LookupAndInvoke(_, _, _, _, _, _)
LookupAndInvoke(st, reg, descriptors, name, val, i) ==
  IF i > Len(descriptors) \/ st.threw # NoError THEN st
  ELSE LET st1 == lookupValidator([st EXCEPT !.validators = <<>>], reg, descriptors[i])
       IN  IF st1.threw # NoError THEN st1
           ELSE LookupAndInvoke(ForEachValidator(st1, st1.validators, name, val, 1),
                                reg, descriptors, name, val, i + 1)

_validateAttributeOneByOne(st, reg, val, attribute) ==
  LET name == attrName(attribute)
      validations == st.meta[name].options.validation
      list == IF ~IsArray(validations) THEN <<validations>> ELSE validations.items
      st1 == [st EXCEPT !.meta[name].parentTypeKey = Str(ModelName)]
  IN  IF IsEmpty(validations) THEN st1
      ELSE LookupAndInvoke(st1, reg, Descriptors(list, attribute, 1), name, val[name], 1)

\* _validateAttribute, lines 129-141.
_validateAttribute(st, reg, val, attribute) ==
  LET st1 == validatorsFor(st, reg, attribute)
      name == attrName(attribute)
      st2 == [st1 EXCEPT !.meta[name].parentTypeKey = Str(ModelName)]
  IN  IF st1.threw # NoError THEN st1
      ELSE ForEachValidator(st2, st1.validators, name, val[name], 1)

(***************************************************************************)
(* validate, lines 167-205.                                                *)
(***************************************************************************)

\* Lines 185-191: eachAttribute / eachRelationship, which an exception ends.
RECURSIVE EachField(_, _, _, _, _)
EachField(st, reg, val, fields, i) ==
  IF i > Len(fields) \/ st.threw # NoError THEN st
  ELSE EachField(_validateAttribute(st, reg, val, AttrRef(fields[i])), reg, val, fields, i + 1)

\* Faulty variants of lines 170-173: one that sends becameValid and leaves
\* the errors in place, and one with the test of isValid inverted.
BecameValidWithoutClear(st) ==
  IF ~st.isValid
  THEN [st EXCEPT !.isValid = TRUE, !.trace = Append(@, <<"send", "becameValid">>)]
  ELSE st

ClearIfValid(st) ==
  IF st.isValid
  THEN [st EXCEPT !.errors = <<>>,
                  !.trace = @ \o << <<"send", "becameValid">>, <<"clear">> >>]
  ELSE st

\* Lines 170-173: a record that is not valid is sent becameValid and its
\* errors are cleared.
ClearIfInvalid(st) ==
  IF ~st.isValid
  THEN [st EXCEPT !.isValid = TRUE,
                  !.errors = <<>>,
                  !.trace = @ \o << <<"send", "becameValid">>, <<"clear">> >>]
  ELSE st

\* A faulty variant of lines 180-183: the willCommit option is ignored.
SendWillCommitAlways(st, willCommit) ==
  [st EXCEPT !.trace = Append(@, <<"send", "willCommit">>)]

\* Lines 180-183.
SendWillCommit(st, willCommit) ==
  IF willCommit THEN [st EXCEPT !.trace = Append(@, <<"send", "willCommit">>)] ELSE st

\* A faulty variant of lines 193-204: becameInvalid is triggered before
\* becomeDirty is sent.
ConcludeInvalidFirst(st) ==
  LET valid == st.errors = <<>>
  IN  IF ~valid
      THEN [st EXCEPT !.trace = @ \o << <<"trigger", "becameInvalid">>,
                                        <<"send", "becomeDirty">> >>,
                      !.isValid = FALSE,
                      !.result = Bool(valid)]
      ELSE [st EXCEPT !.result = Bool(valid)]

\* Lines 193-204: the result, and the signals of an invalid record.  The
\* becameInvalid event moves the record to its invalid state.
Conclude(st) ==
  LET valid == st.errors = <<>>
  IN  IF ~valid
      THEN [st EXCEPT !.trace = @ \o << <<"send", "becomeDirty">>,
                                        <<"trigger", "becameInvalid">> >>,
                      !.isValid = FALSE,
                      !.result = Bool(valid)]
      ELSE [st EXCEPT !.result = Bool(valid)]

\* A faulty variant of validate: the test of isDeleted (lines 176-178) is
\* missing.
validateDeletedToo(st, deleted, reg, val, willCommit) ==
  LET st1 == ClearIfInvalid(st)
      st2 == SendWillCommit(st1, willCommit)
      st3 == EachField(st2, reg, val, Attributes, 1)
      st4 == EachField(st3, reg, val, Relationships, 1)
  IN  IF st4.threw # NoError THEN st4 ELSE Conclude(st4)

\* A faulty variant of validate: the relationships (lines 189-191) are
\* validated before the attributes (lines 185-187).
validateRelationshipsFirst(st, deleted, reg, val, willCommit) ==
  LET st1 == ClearIfInvalid(st)
  IN  IF deleted THEN [st1 EXCEPT !.result = Bool(TRUE)]
      ELSE LET st2 == SendWillCommit(st1, willCommit)
               st3 == EachField(st2, reg, val, Relationships, 1)
               st4 == EachField(st3, reg, val, Attributes, 1)
           IN  IF st4.threw # NoError THEN st4 ELSE Conclude(st4)

validate(st, deleted, reg, val, willCommit) ==
  LET st1 == ClearIfInvalid(st)
  IN  IF deleted THEN [st1 EXCEPT !.result = Bool(TRUE)]
      ELSE LET st2 == SendWillCommit(st1, willCommit)
               st3 == EachField(st2, reg, val, Attributes, 1)
               st4 == EachField(st3, reg, val, Relationships, 1)
           IN  IF st4.threw # NoError THEN st4 ELSE Conclude(st4)

(***************************************************************************)
(* save and createValidationError, lines 14-24 and 207-217.                *)
(***************************************************************************)

\* createValidationError: the ValidationError, or the exception of calling
\* resolveMessage on a message resolver that was not found.
createValidationError(st, reg) ==
  LET messageResolver == lookupMessageResolver(reg)
      resolved == ResolveErrorMessage(reg, messageResolver)
      message == IF IsEmpty(resolved) THEN DefaultErrorMessage ELSE resolved
  IN  IF messageResolver.t # "provider"
      THEN [st EXCEPT !.threw = TypeErrorOfUndefined("resolveMessage")]
      ELSE [st EXCEPT !.payload = ValidationError(message, st.errors)]

\* this._super(): the commit operation of the record framework.
Commit(st) ==
  [st EXCEPT !.trace = Append(@, <<"commit">>), !.committed = @ + 1]

\* A faulty variant of save: the commit is invoked before the pass.
saveCommittingFirst(st, deleted, reg, val, validateOption) ==
  IF ~validateOption THEN Commit(st)
  ELSE LET st1 == validate(Commit(st), deleted, reg, val, TRUE)
       IN  IF st1.threw # NoError THEN st1
           ELSE IF st1.result = Bool(TRUE) THEN st1
           ELSE createValidationError(st1, reg)

\* A faulty variant of save: the validate option (lines 208-210) is ignored.
saveIgnoringOption(st, deleted, reg, val, validateOption) ==
  LET st1 == validate(st, deleted, reg, val, TRUE)
  IN  IF st1.threw # NoError THEN st1
      ELSE IF st1.result = Bool(TRUE) THEN Commit(st1)
      ELSE createValidationError(st1, reg)

save(st, deleted, reg, val, validateOption) ==
  IF ~validateOption THEN Commit(st)
  ELSE LET st1 == validate(st, deleted, reg, val, TRUE)
       IN  IF st1.threw # NoError THEN st1
           ELSE IF st1.result = Bool(TRUE) THEN Commit(st1)
           ELSE createValidationError(st1, reg)

(***************************************************************************)
(* The operations.                                                         *)
(***************************************************************************)

\* What a call starts from.
Start ==
  [ errors |-> errors, meta |-> meta, typeKeys |-> typeKeys, isValid |-> isValid,
    trace |-> <<>>, threw |-> NoError, validators |-> <<>>, result |-> Undefined,
    payload |-> Undefined, committed |-> 0 ]

\* How a call ended: it threw, it returned a value (validate), it returned
\* the commit's promise or a rejected promise (save).
Outcome(op, arg, kind, st) ==
  [ op |-> op, arg |-> arg, kind |-> kind, result |-> st.result,
    error |-> st.threw, payload |-> st.payload ]

Idle(op) == Outcome(op, TRUE, "none", Start)

Init ==
  /\ value = [name |-> Str(""), note |-> Undefined, owner |-> Null]
  /\ \E d \in Declarations :
       meta = [f \in Fields |->
                 [options |-> [validation |-> d[f]], parentTypeKey |-> Undefined]]
  /\ registry \in Registries
  /\ typeKeys = [n \in RegisteredFactories |-> Undefined]
  /\ errors = <<>>
  /\ isValid = TRUE
  /\ isDeleted = FALSE
  /\ commits = 0
  /\ trace = <<>>
  /\ outcome = Idle("none")

\* record.validate({willCommit}).
Validate(willCommit) ==
  \E st \in {validate(Start, isDeleted, registry, value, willCommit)} :
      /\ Len(errors) <= MaxErrors
      /\ errors' = st.errors
      /\ meta' = st.meta
      /\ typeKeys' = st.typeKeys
      /\ isValid' = st.isValid
      /\ trace' = st.trace
      /\ outcome' = Outcome("validate", willCommit,
                            IF st.threw # NoError THEN "threw" ELSE "returned", st)
      /\ UNCHANGED <<value, registry, isDeleted, commits>>

\* record.save({validate}).
Save(validateOption) ==
  \E st \in {save(Start, isDeleted, registry, value, validateOption)} :
      /\ commits < MaxCommits
      /\ Len(errors) <= MaxErrors
      /\ errors' = st.errors
      /\ meta' = st.meta
      /\ typeKeys' = st.typeKeys
      /\ isValid' = st.isValid
      /\ trace' = st.trace
      /\ commits' = commits + st.committed
      /\ outcome' = Outcome("save", validateOption,
                            IF st.threw # NoError THEN "threw"
                            ELSE IF st.committed > 0 THEN "committed" ELSE "rejected", st)
      /\ UNCHANGED <<value, registry, isDeleted>>

\* record.set(f, v): the application changes a field.
SetField(f, v) ==
  /\ v # value[f]
  /\ value' = [value EXCEPT ![f] = v]
  /\ trace' = <<>>
  /\ outcome' = Idle("set")
  /\ UNCHANGED <<meta, registry, typeKeys, errors, isValid, isDeleted, commits>>

\* record.deleteRecord(): the application deletes the record.
DeleteRecord ==
  /\ ~isDeleted
  /\ isDeleted' = TRUE
  /\ trace' = <<>>
  /\ outcome' = Idle("deleteRecord")
  /\ UNCHANGED <<value, meta, registry, typeKeys, errors, isValid, commits>>

Next ==
  \/ \E willCommit \in BOOLEAN : Validate(willCommit)
  \/ \E validateOption \in BOOLEAN : Save(validateOption)
  \/ \E f \in Fields : \E v \in ValuesOf(f) : SetField(f, v)
  \/ DeleteRecord

Spec == Init /\ [][Next]_vars

(***************************************************************************)
(* What the properties below read off a call.                              *)
(***************************************************************************)

\* The last call ran a validation pass: validate(), or save() with
\* validation enabled.
PassRan == outcome.op = "validate" \/ (outcome.op = "save" /\ outcome.arg)

\* The same of the call a step makes.
PassRuns == outcome'.op = "validate" \/ (outcome'.op = "save" /\ outcome'.arg)

\* The pass of the last call ran to its end: it returned true or false.
PassReturned == PassRan /\ outcome.result.t = "boolean"

\* The events of one kind in a trace.
EventsOf(tr, kind) == SelectSeq(tr, LAMBDA e : e[1] = kind)

IsIn(tr, event) == \E i \in 1..Len(tr) : tr[i] = event

\* The validators invoked on field f, as the trace has them.
InvokedOn(tr, f) == SelectSeq(tr, LAMBDA e : e[1] = "validate" /\ e[2] = f)

\* The string results the validators returned, as Error Collection entries.
StringResults(tr) ==
  LET failed == SelectSeq(tr, LAMBDA e : e[1] = "validate" /\ e[4].t = "string")
  IN  [i \in 1..Len(failed) |-> [attribute |-> failed[i][2], message |-> failed[i][4].s]]

\* The messages the Error Collection holds under field f.
ErrorsFor(errs, f) == SelectSeq(errs, LAMBDA e : e.attribute = f)

(***************************************************************************)
(* C1.  A save() with validation enabled whose pass returns false on a     *)
(* record that is not deleted never invokes the commit operation, returns  *)
(* a rejection, and the rejection's errors are the record's Error          *)
(* Collection as the pass left it.                                         *)
(***************************************************************************)
C1_FailedSaveIsRejectedWithErrors ==
  (outcome.op = "save" /\ outcome.arg /\ ~isDeleted /\ outcome.result = Bool(FALSE))
    => /\ ~IsIn(trace, <<"commit">>)
       /\ outcome.kind = "rejected"
       /\ outcome.payload.t # "undefined"
       /\ outcome.payload.errors = errors

(***************************************************************************)
(* C2.  save({validate: false}) invokes the commit operation directly and  *)
(* exactly once on every record, whatever its fields, its isValid flag and *)
(* its errors: no validator is created or invoked, no signal is sent, the  *)
(* Error Collection stays as it is, and the call returns the commit's      *)
(* outcome, never a validation rejection.                                  *)
(***************************************************************************)
C2_SaveWithoutValidationOnlyCommits ==
  [][(outcome'.op = "save" /\ ~outcome'.arg)
       => /\ trace' = << <<"commit">> >>
          /\ commits' = commits + 1
          /\ outcome'.kind = "committed"
          /\ outcome'.payload.t = "undefined"
          /\ errors' = errors
          /\ isValid' = isValid
          /\ meta' = meta]_vars

\* A record whose fields fail validation and whose errors are not empty
\* has been saved with validate: false.
C2_Witness ==
  /\ outcome.op = "save" /\ ~outcome.arg
  /\ ~isValid /\ errors # <<>>
  /\ value.name = Str("") /\ meta.name.options.validation = Required

(***************************************************************************)
(* C3.  As claimed: on a deleted record, whatever its isValid flag and its *)
(* errors, validate() returns true, invokes no validator and leaves the    *)
(* Error Collection as it was.                                             *)
(***************************************************************************)
C3_DeletedRecordIsLeftUntouched ==
  [][(outcome'.op = "validate" /\ isDeleted)
       => /\ outcome'.result = Bool(TRUE)
          /\ EventsOf(trace', "create") = <<>>
          /\ EventsOf(trace', "validate") = <<>>
          /\ errors' = errors]_vars

(***************************************************************************)
(* C3, amended.  On a deleted record validate() returns true and invokes   *)
(* no validator; it leaves the Error Collection as it was when the record  *)
(* is valid, and when the record is not valid it sends becameValid and     *)
(* clears the Error Collection, as on any other record.                    *)
(***************************************************************************)
C3_DeletedRecordIsNotValidated ==
  [][(outcome'.op = "validate" /\ isDeleted)
       => /\ outcome'.result = Bool(TRUE)
          /\ EventsOf(trace', "create") = <<>>
          /\ EventsOf(trace', "validate") = <<>>
          /\ errors' = (IF isValid THEN errors ELSE <<>>)
          /\ isValid'
          /\ trace' = (IF isValid THEN <<>>
                       ELSE << <<"send", "becameValid">>, <<"clear">> >>)]_vars

\* validate() has returned on a deleted record that was not valid.
C3_Witness ==
  /\ outcome.op = "validate" /\ isDeleted
  /\ IsIn(trace, <<"clear">>)
  /\ outcome.result = Bool(TRUE)

NoResolverFound == registry.primary = "none" /\ registry.vendored = "none"

ResolverFoundHasNoMessage ==
  \/ registry.primary = "empty"
  \/ registry.primary = "none" /\ registry.vendored = "empty"

C6_FailedSaveNeverThrows ==
  (outcome.op = "save" /\ outcome.arg /\ outcome.result = Bool(FALSE))
    => /\ outcome.kind # "threw"
       /\ outcome.kind = "rejected"
       /\ (NoResolverFound \/ ResolverFoundHasNoMessage)
             => outcome.payload.message = DefaultErrorMessage

(***************************************************************************)
(* C7.  When a field of a record that is not deleted declares a rule whose *)
(* type is registered under neither name, a validation pass ends with the  *)
(* error naming such a type and with no result, and a save() that started  *)
(* the pass does not commit.                                               *)
(***************************************************************************)
\* The rule objects a field declares, and their keys in declaration order.
RuleObjectsOf(f) ==
  LET v == meta[f].options.validation
  IN  CASE v.t = "array" -> v.items
        [] v.t = "object" -> <<v>>
        [] OTHER -> <<>>

RECURSIVE KeysOfFirst(_, _)
KeysOfFirst(objs, n) ==
  IF n = 0 THEN <<>> ELSE KeysOfFirst(objs, n - 1) \o objs[n].keys

DeclaredKeys(f) == KeysOfFirst(RuleObjectsOf(f), Len(RuleObjectsOf(f)))

Unregistered(key) ==
  /\ ValidatorName(key) \notin RegisteredFactories
  /\ VendoredValidatorName(key) \notin RegisteredFactories

UnregisteredKeys ==
  {key \in UNION {{DeclaredKeys(f)[i] : i \in 1..Len(DeclaredKeys(f))} : f \in Fields} :
     Unregistered(key)}

C7_UnregisteredRuleAbortsThePass ==
  (PassRan /\ ~isDeleted /\ UnregisteredKeys # {})
    => /\ outcome.kind = "threw"
       /\ \E key \in UnregisteredKeys : outcome.error = AssertionError(key)
       /\ outcome.result.t = "undefined"
       /\ ~IsIn(trace, <<"commit">>)

\* A save() ended with the error naming "bogus" after an earlier field had
\* recorded a failure.
C7_Witness ==
  /\ outcome.op = "save" /\ outcome.kind = "threw"
  /\ outcome.error = AssertionError("bogus")
  /\ IsIn(trace, <<"add", "name", "required">>)
  /\ commits = 0

(***************************************************************************)
(* C8.  In a pass that ends, every field has each of its declared rules    *)
(* invoked once, in declaration order, whatever the earlier ones returned, *)
(* and holds one message per rule that failed, in that order.              *)
(***************************************************************************)
TypesOf(events) == [i \in 1..Len(events) |-> events[i][3]]

MessagesOf(entries) == [i \in 1..Len(entries) |-> entries[i].message]

FailuresOf(events) ==
  LET failed == SelectSeq(events, LAMBDA e : e[4].t = "string")
  IN  [i \in 1..Len(failed) |-> failed[i][4].s]

C8_NoShortCircuitWithinAField ==
  (PassReturned /\ ~isDeleted)
    => \A f \in Fields :
         /\ TypesOf(InvokedOn(trace, f)) = DeclaredKeys(f)
         /\ MessagesOf(ErrorsFor(errors, f)) = FailuresOf(InvokedOn(trace, f))

\* A field with three rules had its second rule fail, its third rule
\* invoked and failing too, and holds two messages.
C8_Witness ==
  /\ PassReturned /\ ~isDeleted
  /\ \E f \in Fields :
       LET invoked == InvokedOn(trace, f)
       IN  /\ Len(invoked) = 3
           /\ invoked[2][4].t = "string"
           /\ invoked[3][4].t = "string"
           /\ Len(ErrorsFor(errors, f)) = 2

(***************************************************************************)
(* C9.  As claimed: a validator's result changes the Error Collection only *)
(* when it is a string error message, appended once under the field's      *)
(* name; an empty or absent result (undefined, null, an empty value) and   *)
(* any result of another shape add nothing.                                *)
(***************************************************************************)
C9_OnlyStringMessagesAreRecorded ==
  \A i \in 1..Len(trace) :
    /\ (trace[i][1] = "validate")
         => LET result == trace[i][4]
                added == i < Len(trace) /\ trace[i + 1][1] = "add"
            IN  IF result.t = "string" /\ ~IsEmpty(result)
                THEN added /\ trace[i + 1] = <<"add", trace[i][2], result.s>>
                ELSE ~added
    /\ (trace[i][1] = "add") => (i > 1 /\ trace[i - 1][1] = "validate")

(***************************************************************************)
(* C10.  The validators built for a field are one per key of its rule      *)
(* objects, in list order and then in key order: none when the validation  *)
(* option is absent or empty (and then the field records no error), those  *)
(* of the one rule object when the option is no list.                      *)
(***************************************************************************)
CreatedFor(tr, f) == SelectSeq(tr, LAMBDA e : e[1] = "create" /\ e[2] = f)

IsPrefix(s, t) == Len(s) <= Len(t) /\ \A i \in 1..Len(s) : s[i] = t[i]

C10_OneValidatorPerDeclaredKey ==
  \A f \in Fields :
    /\ (PassRan /\ ~isDeleted) => IsPrefix(TypesOf(CreatedFor(trace, f)), DeclaredKeys(f))
    /\ (PassReturned /\ ~isDeleted)
         => /\ TypesOf(CreatedFor(trace, f)) = DeclaredKeys(f)
            /\ Len(InvokedOn(trace, f)) = Len(DeclaredKeys(f))
    /\ DeclaredKeys(f) = <<>> => ErrorsFor(errors, f) = <<>>

\* A pass has built the two validators of a rule object with two keys that
\* is declared without a list, and none for a field whose list is empty.
C10_Witness ==
  /\ PassReturned /\ ~isDeleted
  /\ \E f \in Fields :
       /\ meta[f].options.validation.t = "object"
       /\ TypesOf(CreatedFor(trace, f)) = <<"required", "echo">>
  /\ \E f \in Fields :
       /\ meta[f].options.validation = Arr(<<>>)
       /\ CreatedFor(trace, f) = <<>>

(***************************************************************************)
(* C11.  As stated: a rule in shorthand syntax and the same rule in        *)
(* explicit syntax, whose configuration object holds the one option with   *)
(* the same value, give their validators configurations with the same      *)
(* rule options.                                                           *)
(***************************************************************************)
MergedKeys == {"attribute", "messageResolver"}

\* The rule options of a configuration object: all but what lines 59-62
\* merge into it.
RuleOptions(config) ==
  LET keys == SelectSeq(config.keys, LAMBDA k : k \notin MergedKeys)
  IN  Obj(keys, [k \in {keys[i] : i \in 1..Len(keys)} |-> config.props[k]])

\* The rule values a field declares, in the order of DeclaredKeys.
RECURSIVE ValuesOfFirst(_, _)
ValuesOfFirst(objs, n) ==
  IF n = 0 THEN <<>>
  ELSE ValuesOfFirst(objs, n - 1)
         \o [i \in 1..Len(objs[n].keys) |-> objs[n].props[objs[n].keys[i]]]

DeclaredValues(f) == ValuesOfFirst(RuleObjectsOf(f), Len(RuleObjectsOf(f)))

\* The explicit value declares the rule of the shorthand value: it is a
\* configuration object with one rule option, of that value.
SameRule(shorthand, explicit) ==
  /\ TypeOf(shorthand) # "object"
  /\ explicit.t = "object"
  /\ Len(RuleOptions(explicit).keys) = 1
  /\ explicit.props[RuleOptions(explicit).keys[1]] = shorthand

C11_ShorthandAndExplicitAreEquivalent ==
  (PassReturned /\ ~isDeleted) =>
    \A f \in Fields :
      \A i, j \in 1..Len(DeclaredKeys(f)) :
        (/\ DeclaredKeys(f)[i] = DeclaredKeys(f)[j]
         /\ SameRule(DeclaredValues(f)[i], DeclaredValues(f)[j]))
          => RuleOptions(CreatedFor(trace, f)[i][4]) = RuleOptions(CreatedFor(trace, f)[j][4])

\* C11, amended.  The configuration of a validator holds the field and the
\* message resolver, and as rule options: for a shorthand value the one
\* option named by the rule type, with that value; for a configuration
\* object the options it declares, unchanged.
C11_ShorthandIsKeyedByRuleType ==
  [][(PassRuns /\ ~isDeleted) =>
       \A f \in Fields :
         \A i \in 1..Len(CreatedFor(trace', f)) :
           LET created == CreatedFor(trace', f)[i]
               declared == DeclaredValues(f)[i]
           IN  /\ created[4].props["attribute"] = AttrRef(f)
               /\ created[4].props["messageResolver"] = lookupMessageResolver(registry)
               /\ RuleOptions(created[4]) =
                    IF TypeOf(declared) # "object"
                    THEN Obj(<<created[3]>>, created[3] :> declared)
                    ELSE RuleOptions(declared)]_vars

\* A pass has built the validators of one rule declared in shorthand syntax
\* and in explicit syntax: the shorthand one has the options of the explicit
\* one that names its option by the rule type, not of the other.
C11_Witness ==
  /\ PassReturned /\ ~isDeleted
  /\ \E f \in Fields :
       \E i, j, k \in 1..Len(CreatedFor(trace, f)) :
         LET options(n) == RuleOptions(CreatedFor(trace, f)[n][4])
         IN  /\ options(i) = Obj(<<"max-length">>, "max-length" :> Num(2))
             /\ options(j) = Obj(<<"max">>, "max" :> Num(2))
             /\ i # k /\ options(k) = options(i)
             /\ SameRule(DeclaredValues(f)[i], DeclaredValues(f)[j])
             /\ SameRule(DeclaredValues(f)[i], DeclaredValues(f)[k])

(***************************************************************************)
(* C12.  A pass on a record that is not deleted sends willCommit exactly   *)
(* once, before it looks up or invokes any validator, when its willCommit  *)
(* option is true, as it is in every pass of save(); it sends no           *)
(* willCommit when the option is false.                                    *)
(***************************************************************************)
PositionsOf(tr, event) == {i \in 1..Len(tr) : tr[i] = event}

\* The positions of what the validators of a pass do.
ValidatorPositions(tr) == {i \in 1..Len(tr) : tr[i][1] \in {"create", "validate", "add"}}

C12_WillCommitOnceBeforeValidators ==
  (PassRan /\ ~isDeleted) =>
    LET sent == PositionsOf(trace, <<"send", "willCommit">>)
    IN  IF outcome.op = "save" \/ outcome.arg
        THEN /\ Cardinality(sent) = 1
             /\ \A i \in sent : \A j \in ValidatorPositions(trace) : i < j
        ELSE sent = {}

\* A pass with willCommit has cleared the errors of an earlier pass, sent
\* willCommit and then invoked a validator.
C12_Witness ==
  /\ PassReturned /\ ~isDeleted
  /\ outcome.op = "validate" /\ outcome.arg
  /\ Len(trace) >= 4
  /\ trace[1] = <<"send", "becameValid">>
  /\ trace[3] = <<"send", "willCommit">>
  /\ EventsOf(trace, "validate") # <<>>

(***************************************************************************)
(* C13.  A pass on a record that is not deleted that runs to its end       *)
(* returns true exactly when the record's errors are empty at its end.     *)
(* When it returns false it has sent becomeDirty and then triggered        *)
(* becameInvalid, once each and after everything its validators did; when  *)
(* it returns true it has sent neither.                                    *)
(***************************************************************************)
C13_ResultIsEmptinessOfErrors ==
  (PassReturned /\ ~isDeleted) =>
    LET dirty == PositionsOf(trace, <<"send", "becomeDirty">>)
        invalid == PositionsOf(trace, <<"trigger", "becameInvalid">>)
    IN  /\ (outcome.result = Bool(TRUE)) <=> (errors = <<>>)
        /\ outcome.result = Bool(FALSE) =>
             /\ Cardinality(dirty) = 1 /\ Cardinality(invalid) = 1
             /\ \A i \in dirty : \A j \in invalid : i < j
             /\ \A i \in ValidatorPositions(trace) : \A j \in dirty : i < j
        /\ outcome.result = Bool(TRUE) => dirty = {} /\ invalid = {}

\* A pass whose last validator added an error has returned false.
C13_Witness ==
  /\ PassReturned /\ ~isDeleted
  /\ outcome.result = Bool(FALSE)
  /\ errors # <<>>
  /\ Len(trace) >= 3
  /\ trace[Len(trace) - 2][1] = "add"
  /\ trace[Len(trace) - 1] = <<"send", "becomeDirty">>
  /\ trace[Len(trace)] = <<"trigger", "becameInvalid">>

(***************************************************************************)
(* C14.  A save() with validation enabled whose pass returns true, as the  *)
(* pass of every deleted record does, invokes the commit exactly once, as  *)
(* the last thing it does, and returns the commit's outcome: it neither    *)
(* throws nor rejects with a ValidationError.                              *)
(***************************************************************************)
C14_ValidSaveCommitsOnceAfterThePass ==
  [][(/\ outcome'.op = "save" /\ outcome'.arg
      /\ (isDeleted \/ outcome'.result = Bool(TRUE)))
       => /\ outcome'.result = Bool(TRUE)
          /\ outcome'.kind = "committed"
          /\ outcome'.error = NoError
          /\ outcome'.payload = Undefined
          /\ commits' = commits + 1
          /\ PositionsOf(trace', <<"commit">>) = {Len(trace')}]_vars

\* A save() has run the validators of a record that is not deleted, none of
\* which failed, and then committed.
C14_Witness ==
  /\ outcome.op = "save" /\ outcome.arg /\ ~isDeleted
  /\ outcome.kind = "committed"
  /\ EventsOf(trace, "validate") # <<>>
  /\ trace[Len(trace)] = <<"commit">>
  /\ commits > 0

(***************************************************************************)
(* C15.  A validator's factory and its message resolver are what the       *)
(* registry holds under the primary name, whether or not it holds          *)
(* something under the vendored name too; what it holds under the          *)
(* vendored name when it holds nothing under the primary one; and the      *)
(* message resolver is absent, with no error raised by its lookup, when    *)
(* the registry holds neither.  The message of a rejected save() is that   *)
(* of the same resolver.                                                   *)
(***************************************************************************)
PrimaryResolver == ProviderRef("resolver:validation-message")

VendoredResolver == ProviderRef("ember-cli-data-validation@resolver:validation-message")

C15_PrimaryNameBeforeVendoredName ==
  /\ \A i \in 1..Len(trace) :
       trace[i][1] = "create" =>
         LET primary == ValidatorName(trace[i][3])
             vendored == VendoredValidatorName(trace[i][3])
             resolver == trace[i][4].props["messageResolver"]
         IN  /\ primary \in RegisteredFactories => trace[i][5] = primary
             /\ (primary \notin RegisteredFactories /\ vendored \in RegisteredFactories)
                  => trace[i][5] = vendored
             /\ registry.primary # "none" => resolver = PrimaryResolver
             /\ (registry.primary = "none" /\ registry.vendored # "none")
                  => resolver = VendoredResolver
             /\ NoResolverFound => resolver = Undefined
  /\ (NoResolverFound /\ outcome.op = "validate" /\ outcome.kind = "threw")
       => outcome.error[1] = "Error"
  /\ (outcome.op = "save" /\ outcome.kind = "rejected") =>
       /\ registry.primary = "text"
            => outcome.payload.message = Str("error message of the application")
       /\ registry.primary = "empty" => outcome.payload.message = DefaultErrorMessage
       /\ (registry.primary = "none" /\ registry.vendored = "text")
            => outcome.payload.message = Str("error message of the addon")

\* With a message resolver under both names, a pass has built a validator
\* whose factory is registered under both names and one whose factory is
\* registered under the vendored name only.
C15_Witness ==
  /\ PassReturned /\ ~isDeleted
  /\ registry.primary # "none" /\ registry.vendored # "none"
  /\ \E i, j \in 1..Len(trace) :
       /\ trace[i][1] = "create" /\ trace[i][5] = "validator:required"
       /\ trace[i][4].props["messageResolver"] = PrimaryResolver
       /\ trace[j][1] = "create"
       /\ trace[j][5] = "ember-cli-data-validation@validator:range"

(***************************************************************************)
(* C16.  In a pass everything the validators of the attributes do comes    *)
(* before anything the validators of the relationships do.  A relationship *)
(* gets one validator per declared rule, each is invoked, each string      *)
(* result is added under the relationship's name, and a pass in which a    *)
(* rule of a relationship fails returns false.                             *)
(***************************************************************************)
RangeOf(seq) == {seq[i] : i \in 1..Len(seq)}

C16_AttributesBeforeRelationships ==
  /\ (PassRan /\ ~isDeleted) =>
       \A i, j \in ValidatorPositions(trace) :
         (trace[i][2] \in RangeOf(Attributes) /\ trace[j][2] \in RangeOf(Relationships))
           => i < j
  /\ (PassReturned /\ ~isDeleted) =>
       \A r \in RangeOf(Relationships) :
         /\ TypesOf(CreatedFor(trace, r)) = DeclaredKeys(r)
         /\ TypesOf(InvokedOn(trace, r)) = DeclaredKeys(r)
         /\ MessagesOf(ErrorsFor(errors, r)) = FailuresOf(InvokedOn(trace, r))
         /\ FailuresOf(InvokedOn(trace, r)) # <<>> => outcome.result = Bool(FALSE)

\* A pass has invoked the validator of an attribute, which passed, and then
\* that of a relationship, which failed: the one error is the
\* relationship's and the pass returned false.
C16_Witness ==
  /\ PassReturned /\ ~isDeleted
  /\ outcome.result = Bool(FALSE)
  /\ \E a \in RangeOf(Attributes) : InvokedOn(trace, a) # <<>>
  /\ \E r \in RangeOf(Relationships) :
       /\ FailuresOf(InvokedOn(trace, r)) # <<>>
       /\ \A i \in 1..Len(errors) : errors[i].attribute = r

(***************************************************************************)
(* C17.  In a pass the validators of a field are all built before any of   *)
(* them is invoked.  A field that declares a rule with no registered       *)
(* validator, in whatever place among its rules, has no validator invoked  *)
(* and no error added under its name in that pass, which ends with an      *)
(* exception.                                                              *)
(***************************************************************************)
DeclaresUnregistered(f) ==
  \E k \in 1..Len(DeclaredKeys(f)) : Unregistered(DeclaredKeys(f)[k])

AddedFor(tr, f) == SelectSeq(tr, LAMBDA e : e[1] = "add" /\ e[2] = f)

C17_FieldIsBuiltBeforeItIsRun ==
  (PassRan /\ ~isDeleted) =>
    \A f \in Fields :
      /\ \A i, j \in 1..Len(trace) :
           (/\ trace[i][1] = "create" /\ trace[i][2] = f
            /\ trace[j][1] = "validate" /\ trace[j][2] = f) => i < j
      /\ DeclaresUnregistered(f) =>
           /\ outcome.kind = "threw"
           /\ InvokedOn(trace, f) = <<>>
           /\ AddedFor(trace, f) = <<>>

\* A pass has built the first validator of a field whose second rule has no
\* registered validator; the first would have failed on the field's value,
\* and was not invoked.
C17_Witness ==
  /\ PassRan /\ ~isDeleted
  /\ outcome.error = AssertionError("bogus")
  /\ \E f \in Fields :
       /\ Len(DeclaredKeys(f)) = 3
       /\ Unregistered(DeclaredKeys(f)[2])
       /\ TypesOf(CreatedFor(trace, f)) = <<"range">>
       /\ value[f] = Num(0)
       /\ InvokedOn(trace, f) = <<>>
       /\ ErrorsFor(errors, f) = <<>>

(***************************************************************************)
(* C18.  A validation pass leaves the validation rule spec that each       *)
(* field declares as it was: the rule objects in the field's metadata have *)
(* the same keys and the same values after the call as before it.          *)
(***************************************************************************)
C18_DeclaredRulesAreUnchanged ==
  [][PassRuns =>
       \A f \in Fields : meta'[f].options.validation = meta[f].options.validation]_vars

====
